---- MODULE Spec2Model ----
(***************************************************************************)
(* Model of app.py, the Streamlit movie tracker.                           *)
(*                                                                         *)
(* A Streamlit script is executed top to bottom on every user interaction. *)
(* One action of this model is therefore one interaction: the change of    *)
(* one widget value (or a button press, or an upload) followed by one run  *)
(* of the whole script (operator Script).  What survives between two runs  *)
(* is st.session_state.df and the values of the widgets.                   *)
(*                                                                         *)
(* Representation:                                                         *)
(*  - Title and Director cells are strings; the string "NaN" is the null   *)
(*    cell (pandas reads it as NaN).                                       *)
(*  - Genres and Actors cells are sequences of one-character strings, so   *)
(*    that split(', ') and the case-insensitive substring test are         *)
(*    computed on characters; NA is the null cell.                         *)
(*  - Year and Rating cells are integers; NaN (0) is the null cell.        *)
(*    A rating is counted in half points: 16 is the rating 8.0.            *)
(***************************************************************************)
EXTENDS Integers, Sequences, FiniteSets, TLC

\* Number of rows read from each CSV file of the model.
MaxRows == 3

\* Null cell of a numeric column (Year, Rating).
NaN == 0
\* The default "N/A" that load_data writes into a missing Year column.
NAYear == 0 - 1
\* Null cell of a character-sequence column (Genres, Actors).
NA == << "<NA>" >>
\* A decade selectbox holding "All".
AllDecades == [d |-> 0, isFloat |-> FALSE]

Range(s) == { s[k] : k \in 1..Len(s) }

(***************************************************************************)
(* The CSV files: file 0 is the default CSV fetched from DEFAULT_CSV_URL,  *)
(* files 1 and 2 are uploads.  Every file satisfies "a rated row is        *)
(* watched", so that a state violating it is produced by the program.      *)
(***************************************************************************)
Row(t, y, g, a, d, r, w) ==
    [Title |-> t, Year |-> y, Genres |-> g, Actors |-> a, Director |-> d,
     Rating |-> r, Watched |-> w]

AllColumns == {"Title", "Year", "Genres", "Actors", "Director", "Rating", "Watched"}

sSF == << "S", "F" >>
sAc == << "A", "c" >>
sSFAc == << "S", "F", ",", " ", "A", "c" >>
sAnn == << "A", "n", "n" >>
sAnnBo == << "A", "n", "n", ",", " ", "B", "o" >>
sanna == << "a", "n", "n", "a" >>

CSV(file) ==
    CASE file = 0 ->
           [columns |-> AllColumns,
            rows |-> << Row("Alien",  1979, sSFAc, sAnn,   "Scott",   NaN, FALSE),
                        Row("Aliens", 1986, sAc,   sanna,  "Scott",   NaN, TRUE),
                        Row("Heat",   1987, sAc,   NA,     "Mann",    16,  TRUE),
                        Row("Heat",   1972, sSF,   sAnn,   "Mann",    NaN, FALSE) >>]
      [] file = 1 ->
           [columns |-> AllColumns,
            rows |-> << Row("Aliens", 1994, sAc,   sAnn,   "Scott",   14,  TRUE),
                        Row("Alien",  NaN,  sAc,   NA,     "Scott",   21,  TRUE),
                        Row("Heat",   1995, sAc,   sAnn,   "NaN",     NaN, FALSE) >>]
      [] OTHER ->
           \* the cells of a column the file lacks are never read
           [columns |-> AllColumns \ {"Rating", "Watched"},
            rows |-> << Row("Heat",   1995, NA,    sAnn,   "Mann",    NaN, FALSE),
                        Row("Heat",   1992, sAc,   sAnn,   "Mann",    NaN, FALSE),
                        Row("Heat",   1997, sAc,   sAnn,   "Mann",    NaN, FALSE),
                        Row("Heat",   1999, NA,    sAnn,   "Mann",    NaN, FALSE) >>]

Files == 0..2
Queries == {"", "Alien", "Heat"}

(***************************************************************************)
(* String helpers                                                          *)
(***************************************************************************)
Lower(c) ==
    CASE c = "A" -> "a"
      [] c = "B" -> "b"
      [] c = "S" -> "s"
      [] c = "F" -> "f"
      [] OTHER -> c

\* str.split(', ')
RECURSIVE SplitAcc(_, _, _)
SplitAcc(s, cur, acc) ==
    IF s = << >> THEN Append(acc, cur)
    ELSE IF Len(s) >= 2 /\ s[1] = "," /\ s[2] = " "
         THEN SplitAcc(SubSeq(s, 3, Len(s)), << >>, Append(acc, cur))
         ELSE SplitAcc(Tail(s), Append(cur, s[1]), acc)

Split(s) == SplitAcc(s, << >>, << >>)

\* Series.str.contains(pat, case=False, na=False), for a pattern of letters
StrContains(cell, pat) ==
    IF cell = NA THEN FALSE
    ELSE \E k \in 0..(Len(cell) - Len(pat)) :
            \A j \in 1..Len(pat) : Lower(cell[k + j]) = Lower(pat[j])

(***************************************************************************)
(* LOAD DATA                                                               *)
(***************************************************************************)
sNA == << "N", "/", "A" >>

\* The value load_data gives to a column the file lacks.
DefaultCell(col) ==
    CASE col = "Rating" -> NaN
      [] col = "Watched" -> FALSE
      [] col = "Year" -> NAYear
      [] col \in {"Genres", "Actors"} -> sNA
      [] OTHER -> "N/A"

Genres_list(g) == IF g = NA THEN Split(<< >>) ELSE Split(g)

load_data(file) ==
    LET raw == CSV(file)
        n == IF Len(raw.rows) < MaxRows THEN Len(raw.rows) ELSE MaxRows
        Cell(row, col) == IF col \in raw.columns THEN row[col] ELSE DefaultCell(col)
        Load(row) ==
            [Title |-> Cell(row, "Title"), Year |-> Cell(row, "Year"),
             Genres |-> Cell(row, "Genres"), Actors |-> Cell(row, "Actors"),
             Director |-> Cell(row, "Director"), Rating |-> Cell(row, "Rating"),
             Watched |-> Cell(row, "Watched"),
             Genres_list |-> Genres_list(Cell(row, "Genres"))]
    IN [i \in 1..n |-> Load(raw.rows[i])]

\* load_data is a function of the file alone: Frames holds its value for each
\* file of the model, so that a run which loads a file looks the frame up.
Frames == [file \in Files |-> load_data(file)]

\* The row labels of a frame, in order.
Index(df) == [i \in 1..Len(df) |-> i]

(***************************************************************************)
(* HELPER FUNCTIONS                                                        *)
(***************************************************************************)
limit == 8
score_cutoff == 60

\* rapidfuzz WRatio of the model's queries against the model's titles.
Score(query, title) ==
    CASE query = title -> 100
      [] query = "Alien" /\ title = "Aliens" -> 91
      [] query = "Alien" /\ title = "Heat" -> 22
      [] query = "Heat" /\ title = "Alien" -> 22
      [] query = "Heat" /\ title = "Aliens" -> 20
      [] OTHER -> 0

\* Positions of choices in descending score, ties in input order.
RECURSIVE Ranked(_, _, _)
Ranked(query, choices, left) ==
    IF left = {} THEN << >>
    ELSE LET best == CHOOSE k \in left :
                        \A m \in left :
                           \/ Score(query, choices[k]) > Score(query, choices[m])
                           \/ /\ Score(query, choices[k]) = Score(query, choices[m])
                              /\ k <= m
         IN << best >> \o Ranked(query, choices, left \ {best})

get_fuzzy_matches(query, choices) ==
    IF query = "" THEN << >>
    ELSE LET above == { k \in 1..Len(choices) : Score(query, choices[k]) >= score_cutoff }
             results == Ranked(query, choices, above)
             n == IF Len(results) < limit THEN Len(results) ELSE limit
         IN [k \in 1..n |-> choices[results[k]]]

(***************************************************************************)
(* SEARCH & FILTER                                                         *)
(***************************************************************************)
RECURSIVE TitlesOf(_, _)
TitlesOf(df, rows) ==
    IF rows = << >> THEN << >>
    ELSE IF df[Head(rows)].Title = "NaN"
         THEN TitlesOf(df, Tail(rows))
         ELSE << df[Head(rows)].Title >> \o TitlesOf(df, Tail(rows))

all_titles(df) == TitlesOf(df, Index(df))

all_directors(df) == { df[i].Director : i \in 1..Len(df) } \ {"NaN"}

all_actors(df) ==
    UNION { Range(Split(df[i].Actors)) : i \in { j \in 1..Len(df) : df[j].Actors # NA } }

all_genres(df) == UNION { Range(df[i].Genres_list) : i \in 1..Len(df) }

\* The Year column is float64 as soon as one cell is null.
YearIsFloat(df) == \E i \in 1..Len(df) : df[i].Year = NaN
\* The Year column holds the default "N/A".
YearIsStr(df) == \E i \in 1..Len(df) : df[i].Year = NAYear

Decade(y) == (y \div 10) * 10

\* [str(d) for d in decades]: "1990" for an int64 column, "1990.0" for float64.
decades(df) ==
    { [d |-> Decade(df[i].Year), isFloat |-> YearIsFloat(df)] :
         i \in { j \in 1..Len(df) : df[j].Year # NaN } }

DirectorOptions(df) == {"All"} \cup all_directors(df)
ActorOptions(df) == {<< "All" >>} \cup all_actors(df)
DecadeOptions(df) == {AllDecades} \cup decades(df)
WatchedOptions == {"All", "Watched", "Not Watched"}

\* Apply filters
FilterDirector(rows, df, sd) ==
    IF sd # "All"
    THEN SelectSeq(rows, LAMBDA i : df[i].Director # "NaN" /\ df[i].Director = sd)
    ELSE rows

FilterActor(rows, df, sa) ==
    IF sa # << "All" >>
    THEN SelectSeq(rows, LAMBDA i : StrContains(df[i].Actors, sa))
    ELSE rows

FilterGenres(rows, df, sg) ==
    IF sg # {}
    THEN SelectSeq(rows, LAMBDA i : \E genre \in sg : genre \in Range(df[i].Genres_list))
    ELSE rows

FilterDecade(rows, df, sdec) ==
    IF sdec # AllDecades
    THEN SelectSeq(rows, LAMBDA i : df[i].Year # NaN /\ Decade(df[i].Year) = sdec.d)
    ELSE rows

FilterWatched(rows, df, wf) ==
    IF wf = "Watched" THEN SelectSeq(rows, LAMBDA i : df[i].Watched = TRUE)
    ELSE IF wf = "Not Watched" THEN SelectSeq(rows, LAMBDA i : df[i].Watched = FALSE)
    ELSE rows

\* int(selected_decade) raises ValueError on "1990.0"
IntRaises(sdec) == sdec.isFloat

\* Lines 110-122.  err tells whether line 118 raised; filtered_df is then the
\* frame narrowed so far.
ApplyFilters(df, sd, sa, sg, sdec, wf) ==
    LET f1 == FilterDirector(Index(df), df, sd)
        f2 == FilterActor(f1, df, sa)
        f3 == FilterGenres(f2, df, sg)
    IN IF sdec # AllDecades /\ IntRaises(sdec)
       THEN [filtered_df |-> f3, err |-> "ValueError_L118"]
       ELSE [filtered_df |-> FilterWatched(FilterDecade(f3, df, sdec), df, wf),
             err |-> "none"]

FiltersActive(sd, sa, sg, sdec, wf) ==
    sd # "All" \/ sa # << "All" >> \/ sg # {} \/ sdec # AllDecades \/ wf # "All"

search_or_filter_applied(q, sd, sa, sg, sdec, wf) ==
    q # "" \/ FiltersActive(sd, sa, sg, sdec, wf)

\* filters_applied_only without its test of the title query
filters_applied_only_any_query(q, sd, sa, sg, sdec, wf) ==
    FiltersActive(sd, sa, sg, sdec, wf)

filters_applied_only(q, sd, sa, sg, sdec, wf) ==
    q = "" /\ FiltersActive(sd, sa, sg, sdec, wf)

(***************************************************************************)
(* Widgets with a key.  Streamlit returns the stored value of a widget     *)
(* that it already knows and the default otherwise; a widget is known by   *)
(* its key and its default.  idx 0 is the key without a row label.         *)
(***************************************************************************)
CheckboxId(title, idx, value) == [title |-> title, idx |-> idx, value |-> value]
SelectboxId(title, index) == [title |-> title, index |-> index]

Widget(store, id, default) == IF id \in DOMAIN store THEN store[id] ELSE default

(***************************************************************************)
(* DISPLAY SEARCH RESULTS WITH WATCHED CHECKBOX                            *)
(***************************************************************************)
rating_options == 0..20

\* set_watched that also clears the rating of a row it marks unwatched
set_watched_cascading(df, idx, watched_val) ==
    [df EXCEPT ![idx].Watched = watched_val,
               ![idx].Rating = IF watched_val THEN @ ELSE NaN]

set_watched(df, idx, watched_val) == [df EXCEPT ![idx].Watched = watched_val]

\* set_rating without line 159
set_rating_only(df, idx, rating_val) == [df EXCEPT ![idx].Rating = rating_val]

set_rating(df, idx, rating_val) ==
    LET d == [df EXCEPT ![idx].Rating = rating_val]
    IN IF rating_val # NaN THEN [d EXCEPT ![idx].Watched = TRUE] ELSE d

\* df[df["Title"] == matched_titles[0]].index[0]
TopMatchIdx(df, matched_titles) ==
    CHOOSE i \in 1..Len(df) :
        /\ df[i].Title = matched_titles[1]
        /\ \A j \in 1..(i - 1) : df[j].Title # matched_titles[1]

\* The detail view is skipped.
NoDetail(df) ==
    [df |-> df, top_match_idx |-> 0, cb |-> << >>, sb |-> << >>, err |-> "none"]

\* Lines 133-159.  err tells whether line 156 raised; the rating selectbox
\* is then not rendered and lines 157-159 are not executed.
DetailView(df, q, matched_titles, cb, sb) ==
    IF q # "" /\ matched_titles # << >>
    THEN LET top_match_idx == TopMatchIdx(df, matched_titles)
             top_match == df[top_match_idx]
             wid == CheckboxId(top_match.Title, 0, top_match.Watched)
             watched_val == Widget(cb, wid, top_match.Watched)
             d1 == set_watched(df, top_match_idx, watched_val)
             rid == SelectboxId(top_match.Title, top_match.Rating)
             rating_val == Widget(sb, rid, top_match.Rating)
         IN IF top_match.Rating # NaN /\ top_match.Rating \notin rating_options
            THEN [df |-> d1, top_match_idx |-> top_match_idx, cb |-> wid :> watched_val,
                  sb |-> << >>, err |-> "ValueError_L156"]
            ELSE [df |-> set_rating(d1, top_match_idx, rating_val),
                  top_match_idx |-> top_match_idx, cb |-> wid :> watched_val,
                  sb |-> rid :> rating_val, err |-> "none"]
    ELSE NoDetail(df)

\* Lines 165-172: one checkbox per row of filtered_df, whose rows are copies
\* of the rows of the loaded frame df0.
RECURSIVE ListRows(_, _, _, _)
ListRows(df, df0, rows, cb) ==
    IF rows = << >> THEN [df |-> df, cb |-> << >>]
    ELSE LET idx == Head(rows)
             row == df0[idx]
             wid == CheckboxId(row.Title, idx, row.Watched)
             watched_val == Widget(cb, wid, row.Watched)
             rest == ListRows(set_watched(df, idx, watched_val), df0, Tail(rows), cb)
         IN [df |-> rest.df, cb |-> (wid :> watched_val) @@ rest.cb]

\* The list is skipped.
NoList(df) == [df |-> df, listed |-> << >>, cb |-> << >>]

ListView(df, df0, only, filtered_df, cb) ==
    IF only /\ filtered_df # << >>
    THEN LET l == ListRows(df, df0, filtered_df, cb)
         IN [df |-> l.df, listed |-> filtered_df, cb |-> l.cb]
    ELSE NoList(df)

(***************************************************************************)
(* RANDOM MOVIE PICKER                                                     *)
(***************************************************************************)
\* random_picker_df without its filter
random_picker_df_all(df) == Index(df)

random_picker_df(df) == SelectSeq(Index(df), LAMBDA i : df[i].Watched = FALSE)

(***************************************************************************)
(* USER STATS (WATCHED MOVIES)                                             *)
(***************************************************************************)
\* watched_df taken as the rated rows
watched_df_rated(df) == SelectSeq(Index(df), LAMBDA i : df[i].Rating # NaN)

watched_df(df) == SelectSeq(Index(df), LAMBDA i : df[i].Watched = TRUE)

\* sort_values(by='Rating', ascending=False): null ratings last; rows of
\* equal rating keep their order (frames of this size are insertion-sorted).
RECURSIVE SortByRating(_, _)
SortByRating(df, rows) ==
    IF rows = << >> THEN << >>
    ELSE LET k == CHOOSE k \in 1..Len(rows) :
                     /\ \A m \in 1..Len(rows) : df[rows[k]].Rating >= df[rows[m]].Rating
                     /\ \A m \in 1..(k - 1) : df[rows[m]].Rating # df[rows[k]].Rating
         IN << rows[k] >> \o
            SortByRating(df, SubSeq(rows, 1, k - 1) \o SubSeq(rows, k + 1, Len(rows)))

Head10(rows) == SubSeq(rows, 1, IF Len(rows) < 10 THEN Len(rows) ELSE 10)

\* Lines 258-259: the sum of no actor list is 0, and Counter(0) raises.
CounterRaises(df, wrows) == \A k \in 1..Len(wrows) : df[wrows[k]].Actors = NA

Stats(df) ==
    LET w == watched_df(df)
        sorted == SortByRating(df, w)
    IN IF w # << >>
       THEN [stats_shown |-> TRUE, total_watched |-> Len(w),
             highest_movie |-> sorted[1], top10_df |-> Head10(sorted),
             err |-> IF CounterRaises(df, w) THEN "TypeError_L259" ELSE "none"]
       ELSE [stats_shown |-> FALSE, total_watched |-> 0, highest_movie |-> 0,
             top10_df |-> << >>, err |-> "none"]

NoStats ==
    [stats_shown |-> FALSE, total_watched |-> 0, highest_movie |-> 0,
     top10_df |-> << >>, err |-> "none"]

(***************************************************************************)
(* One run of the script, lines 65-290, on the widget values given.        *)
(* An exception ends the run where it is raised: what the run had written  *)
(* into the frame stays, and nothing below the raising line is executed.   *)
(***************************************************************************)
Outcome(df, err, filtered_df, top_match_idx, listed, cb, sb, picker, candidates, st) ==
    [df |-> df, err |-> err, filtered_df |-> filtered_df,
     top_match_idx |-> top_match_idx, listed |-> listed, cb |-> cb, sb |-> sb,
     picker |-> picker, candidates |-> candidates, st |-> st]

\* Lines 179-290 on the frame the views left: the picker, then the stats.
PickerAndStats(df, filtered_df, top_match_idx, listed, cb, sb, pressed) ==
    LET unwatched == random_picker_df(df)
        picker == IF ~pressed THEN "notrun"
                  ELSE IF unwatched = << >> THEN "empty" ELSE "pick"
        st == Stats(df)
    IN Outcome(df, st.err, filtered_df, top_match_idx, listed, cb, sb,
               picker, unwatched, st)

\* Lines 162-172 after the detail view det, then the rest of the script.
DisplayList(df0, applied, only, pressed, cb, filtered_df, det) ==
    IF det.err # "none"
    THEN Outcome(det.df, det.err, filtered_df, det.top_match_idx, << >>,
                 det.cb, det.sb, "notrun", << >>, NoStats)
    ELSE \* the frame, the rows listed and the checkboxes of the list
         LET lst == IF applied THEN ListView(det.df, df0, only, filtered_df, cb)
                    ELSE NoList(det.df)
         IN PickerAndStats(lst.df, filtered_df, det.top_match_idx, lst.listed,
                           det.cb @@ lst.cb, det.sb, pressed)

\* Lines 124-159 after the filters flt, then the rest of the script.
DisplayResults(df0, q, matched_titles, applied, only, pressed, cb, sb, flt) ==
    IF flt.err # "none"
    THEN Outcome(df0, flt.err, flt.filtered_df, 0, << >>, << >>, << >>,
                 "notrun", << >>, NoStats)
    ELSE DisplayList(df0, applied, only, pressed, cb, flt.filtered_df,
                     IF applied THEN DetailView(df0, q, matched_titles, cb, sb)
                     ELSE NoDetail(df0))

\* Lines 86-290 on the frame df0 that lines 65-75 loaded.
SearchAndFilter(df0, q, sd, sa, sg, sdec, wf, pressed, cb, sb) ==
    IF YearIsStr(df0)
    THEN Outcome(df0, "TypeError_L104", << >>, 0, << >>, << >>, << >>,
                 "notrun", << >>, NoStats)
    ELSE DisplayResults(df0, q, get_fuzzy_matches(q, all_titles(df0)),
                        search_or_filter_applied(q, sd, sa, sg, sdec, wf),
                        filters_applied_only(q, sd, sa, sg, sdec, wf),
                        pressed, cb, sb,
                        ApplyFilters(df0, sd, sa, sg, sdec, wf))

Script(file, q, sd, sa, sg, sdec, wf, pressed, cb, sb) ==
    SearchAndFilter(Frames[file], q, sd, sa, sg, sdec, wf, pressed, cb, sb)

(***************************************************************************)
(* State                                                                   *)
(***************************************************************************)
VARIABLES
    uploaded_file,      \* the file in the uploader, 0 for none
    search_query, selected_director, selected_actor, selected_genres,
    selected_decade, watched_filter,
    checkbox_state,     \* values of the keyed checkboxes Streamlit holds
    selectbox_state,    \* values of the keyed rating selectboxes Streamlit holds
    df,                 \* st.session_state.df
    err,                \* the exception that ended the last run, or "none"
    filtered_df, top_match_idx, listed,
    picker, movie,      \* the random picker: whether it ran, and its pick
    stats_shown, total_watched, highest_movie, top10_df

vars ==
    << uploaded_file, search_query, selected_director, selected_actor,
       selected_genres, selected_decade, watched_filter, checkbox_state,
       selectbox_state, df, err, filtered_df, top_match_idx, listed, picker,
       movie, stats_shown, total_watched, highest_movie, top10_df >>

\* Widget values after a run: a complete run forgets the widgets it did not
\* render, a run ended by an exception forgets none.
Kept(rendered, store, error) == IF error = "none" THEN rendered ELSE rendered @@ store

\* The state after one run of the script on the widget values given.
Rerun(file, q, sd, sa, sg, sdec, wf, pressed, cb, sb) ==
    /\ uploaded_file' = file
    /\ search_query' = q
    /\ selected_director' = sd
    /\ selected_actor' = sa
    /\ selected_genres' = sg
    /\ selected_decade' = sdec
    /\ watched_filter' = wf
    /\ \E r \in {Script(file, q, sd, sa, sg, sdec, wf, pressed, cb, sb)} :
          /\ checkbox_state' = Kept(r.cb, cb, r.err)
          /\ selectbox_state' = Kept(r.sb, sb, r.err)
          /\ df' = r.df
          /\ err' = r.err
          /\ filtered_df' = r.filtered_df
          /\ top_match_idx' = r.top_match_idx
          /\ listed' = r.listed
          /\ picker' = r.picker
          /\ movie' \in (IF r.picker = "pick" THEN Range(r.candidates) ELSE {0})
          /\ stats_shown' = r.st.stats_shown
          /\ total_watched' = r.st.total_watched
          /\ highest_movie' = r.st.highest_movie
          /\ top10_df' = r.st.top10_df

\* The first run of a session: no upload, every widget at its default.
Init ==
    \E r \in {Script(0, "", "All", << "All" >>, {}, AllDecades, "All", FALSE, << >>, << >>)} :
       /\ uploaded_file = 0
       /\ search_query = ""
       /\ selected_director = "All"
       /\ selected_actor = << "All" >>
       /\ selected_genres = {}
       /\ selected_decade = AllDecades
       /\ watched_filter = "All"
       /\ checkbox_state = r.cb
       /\ selectbox_state = r.sb
       /\ df = r.df
       /\ err = r.err
       /\ filtered_df = r.filtered_df
       /\ top_match_idx = r.top_match_idx
       /\ listed = r.listed
       /\ picker = r.picker
       /\ movie = 0
       /\ stats_shown = r.st.stats_shown
       /\ total_watched = r.st.total_watched
       /\ highest_movie = r.st.highest_movie
       /\ top10_df = r.st.top10_df

\* The frame the current run loaded, from which the widget defaults come.
Loaded == Frames[uploaded_file]

\* A selectbox without a key is a new widget, at its default, when its
\* options change.
KeepIfSame(old, new, value, default) == IF old = new THEN value ELSE default

(***************************************************************************)
(* Interactions                                                            *)
(***************************************************************************)
Upload(file) ==
    /\ file # uploaded_file
    /\ LET old == Loaded
           new == Frames[file]
       IN Rerun(file, search_query,
                KeepIfSame(DirectorOptions(old), DirectorOptions(new), selected_director, "All"),
                KeepIfSame(ActorOptions(old), ActorOptions(new), selected_actor, << "All" >>),
                KeepIfSame(all_genres(old), all_genres(new), selected_genres, {}),
                KeepIfSame(DecadeOptions(old), DecadeOptions(new), selected_decade, AllDecades),
                watched_filter, FALSE, checkbox_state, selectbox_state)

SetQuery(q) ==
    /\ q # search_query
    /\ Rerun(uploaded_file, q, selected_director, selected_actor,
             selected_genres, selected_decade, watched_filter, FALSE,
             checkbox_state, selectbox_state)

SetDirector(sd) ==
    /\ sd # selected_director
    /\ Rerun(uploaded_file, search_query, sd, selected_actor,
             selected_genres, selected_decade, watched_filter, FALSE,
             checkbox_state, selectbox_state)

SetActor(sa) ==
    /\ sa # selected_actor
    /\ Rerun(uploaded_file, search_query, selected_director, sa,
             selected_genres, selected_decade, watched_filter, FALSE,
             checkbox_state, selectbox_state)

SetGenres(sg) ==
    /\ sg # selected_genres
    /\ Rerun(uploaded_file, search_query, selected_director,
             selected_actor, sg, selected_decade, watched_filter, FALSE,
             checkbox_state, selectbox_state)

SetDecade(sdec) ==
    /\ err # "TypeError_L104"
    /\ sdec # selected_decade
    /\ Rerun(uploaded_file, search_query, selected_director,
             selected_actor, selected_genres, sdec, watched_filter, FALSE,
             checkbox_state, selectbox_state)

SetWatchedFilter(wf) ==
    /\ err # "TypeError_L104"
    /\ wf # watched_filter
    /\ Rerun(uploaded_file, search_query, selected_director,
             selected_actor, selected_genres, selected_decade, wf, FALSE,
             checkbox_state, selectbox_state)

\* The ids of the widgets the last run rendered.
DetailCheckbox ==
    CheckboxId(Loaded[top_match_idx].Title, 0, Loaded[top_match_idx].Watched)
DetailSelectbox ==
    SelectboxId(Loaded[top_match_idx].Title, Loaded[top_match_idx].Rating)
ListCheckbox(idx) == CheckboxId(Loaded[idx].Title, idx, Loaded[idx].Watched)

\* The ratings the user selects in the model.
RatingInputs == {NaN, 1, 15, 20}

ToggleDetailWatched ==
    /\ top_match_idx # 0
    /\ LET v == ~checkbox_state[DetailCheckbox]
       IN Rerun(uploaded_file, search_query, selected_director, selected_actor,
                selected_genres, selected_decade, watched_filter, FALSE,
                (DetailCheckbox :> v) @@ checkbox_state, selectbox_state)

SelectRating(v) ==
    /\ top_match_idx # 0
    /\ DetailSelectbox \in DOMAIN selectbox_state
    /\ err # "ValueError_L156"
    /\ v # selectbox_state[DetailSelectbox]
    /\ Rerun(uploaded_file, search_query, selected_director, selected_actor,
             selected_genres, selected_decade, watched_filter, FALSE,
             checkbox_state, (DetailSelectbox :> v) @@ selectbox_state)

ToggleListWatched(idx) ==
    /\ idx \in Range(listed)
    /\ LET v == ~checkbox_state[ListCheckbox(idx)]
       IN Rerun(uploaded_file, search_query, selected_director, selected_actor,
                selected_genres, selected_decade, watched_filter, FALSE,
                (ListCheckbox(idx) :> v) @@ checkbox_state, selectbox_state)

PressPick ==
    /\ err \in {"none", "TypeError_L259"}
    /\ Rerun(uploaded_file, search_query, selected_director,
             selected_actor, selected_genres, selected_decade, watched_filter, TRUE,
             checkbox_state, selectbox_state)

Next ==
    \/ \E file \in Files : Upload(file)
    \/ \E q \in Queries : SetQuery(q)
    \/ \E sd \in DirectorOptions(Loaded) : SetDirector(sd)
    \/ \E sa \in ActorOptions(Loaded) : SetActor(sa)
    \/ \E sg \in SUBSET all_genres(Loaded) : SetGenres(sg)
    \/ \E sdec \in DecadeOptions(Loaded) : SetDecade(sdec)
    \/ \E wf \in WatchedOptions : SetWatchedFilter(wf)
    \/ ToggleDetailWatched
    \/ \E v \in RatingInputs : SelectRating(v)
    \/ \E idx \in 1..Len(Loaded) : ToggleListWatched(idx)
    \/ PressPick

Spec == Init /\ [][Next]_vars

(***************************************************************************)
(* The claims                                                              *)
(***************************************************************************)
Rows == 1..Len(df)
WatchedRows == { i \in Rows : df[i].Watched }

\* An interaction that is no upload and changes no watched flag or rating
\* widget: a filter change, a query change, a press of the picker button.
Viewing ==
    \/ \E q \in Queries : SetQuery(q)
    \/ \E sd \in DirectorOptions(Loaded) : SetDirector(sd)
    \/ \E sa \in ActorOptions(Loaded) : SetActor(sa)
    \/ \E sg \in SUBSET all_genres(Loaded) : SetGenres(sg)
    \/ \E sdec \in DecadeOptions(Loaded) : SetDecade(sdec)
    \/ \E wf \in WatchedOptions : SetWatchedFilter(wf)
    \/ PressPick

\* The run was ended by an exception above the display block (line 129).
RaisedBeforeDisplay == err \in {"TypeError_L104", "ValueError_L118"}
\* The run was ended by an exception above the statistics (line 199).
RaisedBeforeStats == RaisedBeforeDisplay \/ err = "ValueError_L156"

\* C1: in every reachable state of the table, every record with a non-null
\* rating is watched.
C1_RatingImpliesWatched == \A i \in Rows : df[i].Rating # NaN => df[i].Watched = TRUE

\* C2: a filter change, a query change or a press of the picker button
\* changes no record of the table.
C2_ViewingKeepsRecords == [][Viewing => df' = df]_vars

\* C3: setting the watched flag of a record, in the detail view or in the
\* list view, leaves the flag at exactly the given boolean and leaves the
\* rating of the record as it was.
C3_SetWatchedExact ==
    [][/\ ToggleDetailWatched =>
            /\ df'[top_match_idx].Watched = ~checkbox_state[DetailCheckbox]
            /\ df'[top_match_idx].Rating = df[top_match_idx].Rating
       /\ \A idx \in Rows : ToggleListWatched(idx) =>
            /\ df'[idx].Watched = ~checkbox_state[ListCheckbox(idx)]
            /\ df'[idx].Rating = df[idx].Rating]_vars

\* C3 as amended: setting the watched flag never changes the rating of the
\* record; in the list view the flag ends at exactly the given boolean; in the
\* detail view it ends at the given boolean unless the rating selectbox of
\* the record holds a rating, and then the record stays watched.
C3_SetWatchedUnlessRated ==
    [][/\ ToggleDetailWatched =>
            /\ df'[top_match_idx].Watched =
                  (\/ ~checkbox_state[DetailCheckbox]
                   \/ /\ err' # "ValueError_L156"
                      /\ selectbox_state'[DetailSelectbox] # NaN)
            /\ df'[top_match_idx].Rating = df[top_match_idx].Rating
       /\ \A idx \in Rows : ToggleListWatched(idx) =>
            /\ df'[idx].Watched = ~checkbox_state[ListCheckbox(idx)]
            /\ df'[idx].Rating = df[idx].Rating]_vars

\* A rated record of the detail view whose checkbox the user has cleared.
C3_Witness ==
    /\ top_match_idx # 0
    /\ Loaded[top_match_idx].Watched = TRUE
    /\ checkbox_state[DetailCheckbox] = FALSE
    /\ df[top_match_idx].Rating # NaN
    /\ df[top_match_idx].Watched = TRUE

\* C4: selecting a rating v of the scale for the record of the detail view,
\* watched before or not, leaves the record with rating v and watched.
C4_SetRatingSetsWatched ==
    [][\A v \in RatingInputs \ {NaN} : SelectRating(v) =>
            /\ df'[top_match_idx].Rating = v
            /\ df'[top_match_idx].Watched = TRUE]_vars

\* A record loaded unwatched and unrated, its checkbox never ticked, that a
\* selected rating has made watched.
C4_Witness ==
    /\ top_match_idx # 0
    /\ Loaded[top_match_idx].Watched = FALSE
    /\ Loaded[top_match_idx].Rating = NaN
    /\ checkbox_state[DetailCheckbox] = FALSE
    /\ df[top_match_idx].Rating = 15
    /\ df[top_match_idx].Watched = TRUE

\* C5: setting the rating of a record to null leaves its watched flag as it
\* was.
C5_NullRatingKeepsWatched ==
    [][SelectRating(NaN) => df'[top_match_idx].Watched = df[top_match_idx].Watched]_vars

\* C6: once a file is loaded, no run of the script ends in an exception.
C6_NoOperationRaises == err = "none"

\* C7: with an empty title query the filtered frame holds exactly the rows
\* of the table that pass every active predicate, in table order.
C7_FilteredIsConjunction ==
    LET Passes(i) ==
            /\ selected_director = "All" \/ Loaded[i].Director = selected_director
            /\ selected_actor = << "All" >> \/ StrContains(Loaded[i].Actors, selected_actor)
            /\ selected_genres = {} \/ Range(Loaded[i].Genres_list) \cap selected_genres # {}
            /\ \/ selected_decade = AllDecades
               \/ /\ Loaded[i].Year # NaN
                  /\ Decade(Loaded[i].Year) = selected_decade.d
            /\ watched_filter = "Watched" => Loaded[i].Watched = TRUE
            /\ watched_filter = "Not Watched" => Loaded[i].Watched = FALSE
    IN search_query = "" => filtered_df = SelectSeq(Index(Loaded), Passes)

C9_PickerPicksUnwatched ==
    [][PressPick =>
          LET unwatched == { i \in 1..Len(df') : df'[i].Watched = FALSE }
          IN \/ unwatched = {} /\ picker' = "empty" /\ movie' = 0
             \/ unwatched # {} /\ picker' = "pick" /\ movie' \in unwatched]_vars

\* A pick of a record that the file holds as watched and the run unwatched.
C9_Witness ==
    /\ picker = "pick"
    /\ Loaded[movie].Watched = TRUE
    /\ df[movie].Watched = FALSE

\* C10: the statistics count exactly the records watched in the table as
\* the run has updated it, and the highest rated and top rated records are
\* watched records.
C10_StatsOverWatched ==
    /\ stats_shown =>
          /\ total_watched = Cardinality(WatchedRows)
          /\ highest_movie \in WatchedRows
          /\ Range(top10_df) \subseteq WatchedRows
    /\ ~stats_shown => (WatchedRows = {} \/ RaisedBeforeStats)

\* Statistics that count a record the run itself has marked watched, next
\* to an unwatched record.
C10_Witness ==
    /\ stats_shown
    /\ \E i \in Rows : df[i].Watched = TRUE /\ Loaded[i].Watched = FALSE
    /\ \E i \in Rows : df[i].Watched = FALSE
    /\ total_watched = Cardinality(WatchedRows)

====
